---- MODULE Spec2Model ----
(***************************************************************************)
(* Model of the emissions application:                                     *)
(*   - the bulk loader Snowflake.to_table (App/snowflake_to_pandas.py),    *)
(*     statement by statement, against a warehouse holding one stage and   *)
(*     one table per schema;                                               *)
(*   - the pipeline aggregate_data / get_aggregated_data                   *)
(*     (App/emissions_app.py).                                             *)
(***************************************************************************)
EXTENDS Integers, Sequences, FiniteSets, TLC

VARIABLES
    stages,       \* schema -> set of staged files [name, lines]
    tables,       \* schema -> rows of the target table, in load order
    loadMeta,     \* schema -> names of the files COPY INTO has loaded into the table
    pc,           \* caller -> position inside to_table
    call,         \* caller -> arguments of its current to_table call
    tempfile,     \* caller -> the NamedTemporaryFile written by to_csv
    session,      \* caller -> its open connection: [conn, schema]
    log,          \* caller -> statements its current call has executed
    failedAt,     \* caller -> the step whose exception ended the current call
    before,       \* caller -> warehouse content when the current call began
    budget,       \* caller -> to_table calls it may still make
    fileSeq,      \* temp files created so far (names are unique)
    overlapped,   \* some call began while another was in progress
    returned,     \* callers in the order their calls returned normally
    frames,       \* the data frames the callers hand to to_table
    df1,          \* rows of load_data_1(): [ts, v], v the carbon intensity
    df2,          \* rows of load_data_2(): [ts, v], v the marginal rate
    pcA,          \* position of the pipeline: "loaded", "aligned", "aggregated"
    unfilled,     \* aggregate_data's frame after sort and tz_convert, before fillna
    data,         \* the frame aggregate_data returned
    target,       \* the frequency of the last get_aggregated_data call
    time_data     \* the frame get_aggregated_data returned

loaderVars == <<stages, tables, loadMeta, pc, call, tempfile, session, log,
                failedAt, before, budget, fileSeq, overlapped, returned, frames>>

pipelineVars == <<df1, df2, pcA, unfilled, data, target, time_data>>

vars == <<loaderVars, pipelineVars>>

-----------------------------------------------------------------------------
(* Bounds and input domains *)

\* to_table calls made one after the other in the sequential specification
MaxCalls == 3

Procs == {1, 2}

Schemas == {"raw", "mart"}

\* a connection is opened with a database and no schema
NoSchema == "<no schema>"

\* a cell of a data frame is text, a sequence of characters, or missing
\* (None, NaN); a cell of a table is text or SQL NULL
NULL == <<"<null>">>

Quote == "\""

Comma == ","

Newline == "\n"

Backslash == "\\"

\* the columns of the data frame, which are the columns of the target table
Header == << <<"k">>, <<"v">> >>

\* data frames of plain cells: text without special characters, the empty
\* string, a missing value
DataFrames ==
    { <<>>,
      << << <<"k", "1">>, <<"a">> >> >>,
      << << <<"k", "2">>, <<"b">> >>, << <<"k", "3">>, <<>> >> >>,
      << << <<"k", "4">>, NULL >> >> }

\* data frames whose cells also hold the characters of the CSV format:
\* a"b, \N, a,b and a line break
TextFrames ==
    { << << <<"k", "1">>, <<"a">> >> >>,
      << << <<"k", "2">>, <<"b">> >>, << <<"k", "3">>, <<>> >> >>,
      << << <<"k", "5">>, <<"a", Quote, "b">> >> >>,
      << << <<"k", "6">>, <<Backslash, "N">> >> >>,
      << << <<"k", "7">>, <<"a", Comma, "b">> >> >>,
      << << <<"k", "8">>, <<"a", Newline, "b">> >> >> }

NoCall == [df |-> <<>>, schema |-> NoSchema, incremental |-> FALSE, id |-> 0]

NoFile == [name |-> 0, text |-> <<>>]

NoSession == [conn |-> 0, schema |-> NoSchema]

-----------------------------------------------------------------------------
(* CSV intermediate format *)

RECURSIVE JoinWith(_, _)
JoinWith(parts, sep) ==
    IF parts = <<>> THEN <<>>
    ELSE IF Len(parts) = 1 THEN parts[1]
    ELSE parts[1] \o <<sep>> \o JoinWith(Tail(parts), sep)

\* the pieces of a text between the occurrences of a separator
RECURSIVE SplitOn(_, _)
SplitOn(text, sep) ==
    IF \A i \in 1..Len(text) : text[i] # sep THEN <<text>>
    ELSE LET i == CHOOSE k \in 1..Len(text) :
                      text[k] = sep /\ \A j \in 1..(k - 1) : text[j] # sep
         IN  <<SubSeq(text, 1, i - 1)>> \o SplitOn(SubSeq(text, i + 1, Len(text)), sep)

RECURSIVE Doubled(_)
Doubled(c) ==
    IF c = <<>> THEN <<>>
    ELSE (IF Head(c) = Quote THEN <<Quote, Quote>> ELSE <<Head(c)>>) \o Doubled(Tail(c))

\* df.to_csv(temp.name, index = False) writes with csv.QUOTE_MINIMAL: a
\* missing value is written as an empty field, and so is the empty string; a
\* field holding the delimiter, the quote character or the line terminator is
\* enclosed in quotes, its quotes doubled
CsvField(c) ==
    IF c = NULL THEN <<>>
    ELSE IF \E i \in 1..Len(c) : c[i] \in {Comma, Quote, Newline}
         THEN <<Quote>> \o Doubled(c) \o <<Quote>>
         ELSE c

\* one line of the file: the fields joined by commas; a record of one empty
\* field is written as "" so that the line is not blank
CsvLine(row) ==
    LET joined == JoinWith([j \in 1..Len(row) |-> CsvField(row[j])], Comma)
    IN  (IF Len(row) > 0 /\ joined = <<>> THEN <<Quote, Quote>> ELSE joined)
        \o <<Newline>>

RECURSIVE Flatten(_)
Flatten(texts) == IF texts = <<>> THEN <<>> ELSE Head(texts) \o Flatten(Tail(texts))

\* the text of the file: a header line, then one line per row
to_csv(df) ==
    CsvLine(Header) \o Flatten([i \in 1..Len(df) |-> CsvLine(df[i])])

\* FILE_FORMAT = (TYPE = CSV skip_header = 1 EMPTY_FIELD_AS_NULL = TRUE): an
\* empty field is NULL, and so is \N (NULL_IF is left at its default); no
\* FIELD_OPTIONALLY_ENCLOSED_BY is set, so quotes are characters of the value
CsvValue(f) ==
    IF f = <<>> \/ f = <<Backslash, "N">> THEN NULL ELSE f

\* the records of a file: the text before each newline (RECORD_DELIMITER is
\* left at its default), quoted or not
Records(text) ==
    LET pieces == SplitOn(text, Newline)
    IN  IF pieces[Len(pieces)] = <<>> THEN SubSeq(pieces, 1, Len(pieces) - 1)
        ELSE pieces

SkipHeader(records) == IF records = <<>> THEN <<>> ELSE Tail(records)

\* the rows COPY INTO reads from a file: each record after the header, cut
\* at every comma (FIELD_DELIMITER is left at its default), quoted or not
CsvRows(text) ==
    LET body == SkipHeader(Records(text))
    IN  [i \in 1..Len(body) |->
            LET fields == SplitOn(body[i], Comma)
            IN  [j \in 1..Len(fields) |-> CsvValue(fields[j])]]

\* COPY INTO accepts a file when every record has as many fields as the table
\* has columns (ERROR_ON_COLUMN_COUNT_MISMATCH and ON_ERROR = ABORT_STATEMENT
\* are left at their defaults)
Loadable(f) ==
    \A i \in 1..Len(CsvRows(f.text)) : Len(CsvRows(f.text)[i]) = Len(Header)

\* every enumeration of a finite set without repetition
Orders(S) ==
    {o \in [1..Cardinality(S) -> S] : \A i, j \in 1..Cardinality(S) : i # j => o[i] # o[j]}

RECURSIVE RowsOfFiles(_)
RowsOfFiles(fs) ==
    IF fs = <<>> THEN <<>> ELSE CsvRows(Head(fs).text) \o RowsOfFiles(Tail(fs))

-----------------------------------------------------------------------------
(* Control flow of to_table: __to_staging, then __stage_to_table *)

Steps == {"to_csv", "connect_staging", "use_staging", "remove", "put",
          "connect_copy", "use_copy", "truncate", "copy"}

\* NextPc with the old staged content removed after the new file is put
NextPc_RemoveAfterPut(step, incremental) ==
    CASE step = "to_csv"          -> "connect_staging"
      [] step = "connect_staging" -> "use_staging"
      [] step = "use_staging"     -> "put"
      [] step = "put"             -> IF incremental = FALSE THEN "remove" ELSE "connect_copy"
      [] step = "remove"          -> "connect_copy"
      [] step = "connect_copy"    -> "use_copy"
      [] step = "use_copy"        -> IF incremental = FALSE THEN "truncate" ELSE "copy"
      [] step = "truncate"        -> "copy"
      [] step = "copy"            -> "closing"
      [] step = "closing"         -> "done"

\* NextPc with the truncate of the target table left out
NextPc_NoTruncate(step, incremental) ==
    CASE step = "to_csv"          -> "connect_staging"
      [] step = "connect_staging" -> "use_staging"
      [] step = "use_staging"     -> IF incremental = FALSE THEN "remove" ELSE "put"
      [] step = "remove"          -> "put"
      [] step = "put"             -> "connect_copy"
      [] step = "connect_copy"    -> "use_copy"
      [] step = "use_copy"        -> "copy"
      [] step = "truncate"        -> "copy"
      [] step = "copy"            -> "closing"
      [] step = "closing"         -> "done"

\* NextPc with the USE on the second connection left out
NextPc_NoUseOnCopy(step, incremental) ==
    CASE step = "to_csv"          -> "connect_staging"
      [] step = "connect_staging" -> "use_staging"
      [] step = "use_staging"     -> IF incremental = FALSE THEN "remove" ELSE "put"
      [] step = "remove"          -> "put"
      [] step = "put"             -> "connect_copy"
      [] step = "connect_copy"    -> IF incremental = FALSE THEN "truncate" ELSE "copy"
      [] step = "use_copy"        -> IF incremental = FALSE THEN "truncate" ELSE "copy"
      [] step = "truncate"        -> "copy"
      [] step = "copy"            -> "closing"
      [] step = "closing"         -> "done"

NextPc(step, incremental) ==
    CASE step = "to_csv"          -> "connect_staging"
      [] step = "connect_staging" -> "use_staging"
      [] step = "use_staging"     -> IF incremental = FALSE THEN "remove" ELSE "put"
      [] step = "remove"          -> "put"
      [] step = "put"             -> "connect_copy"
      [] step = "connect_copy"    -> "use_copy"
      [] step = "use_copy"        -> IF incremental = FALSE THEN "truncate" ELSE "copy"
      [] step = "truncate"        -> "copy"
      [] step = "copy"            -> "closing"
      [] step = "closing"         -> "done"

\* the call is inside to_table: at a step, or leaving the with-blocks on its
\* way back to the caller
InProgress(p) == pc[p] \in Steps \cup {"closing", "raising"}

Advance(p) == pc' = [pc EXCEPT ![p] = NextPc(pc[p], call[p].incremental)]

\* a statement is logged with the connection it ran on and the schema that
\* connection had selected when the statement was issued
Logged(p, stmt) ==
    log' = [log EXCEPT ![p] =
               Append(@, [stmt |-> stmt, conn |-> session[p].conn,
                          schema |-> session[p].schema])]

\* to_table(df, schema, table, staging_suffix, incremental)
ToTable(p) ==
    /\ pc[p] \in {"idle", "done", "error"}
    /\ budget[p] > 0
    /\ \E df \in frames, s \in Schemas, inc \in BOOLEAN :
          call' = [call EXCEPT ![p] =
                      [df |-> df, schema |-> s, incremental |-> inc, id |-> fileSeq + 1]]
    /\ fileSeq' = fileSeq + 1
    /\ budget' = [budget EXCEPT ![p] = @ - 1]
    /\ pc' = [pc EXCEPT ![p] = "to_csv"]
    /\ log' = [log EXCEPT ![p] = <<>>]
    /\ failedAt' = [failedAt EXCEPT ![p] = "none"]
    /\ tempfile' = [tempfile EXCEPT ![p] = NoFile]
    /\ session' = [session EXCEPT ![p] = NoSession]
    /\ before' = [before EXCEPT ![p] = [tables |-> tables, stages |-> stages]]
    /\ overlapped' = (overlapped \/ \E q \in Procs \ {p} : InProgress(q))
    /\ returned' = SelectSeq(returned, LAMBDA q : q # p)
    /\ UNCHANGED <<stages, tables, loadMeta, frames, pipelineVars>>

\* with NamedTemporaryFile(suffix = suffix, mode='r+') as temp: df.to_csv(...)
ToCsv(p) ==
    /\ pc[p] = "to_csv"
    /\ tempfile' = [tempfile EXCEPT ![p] =
                       [name |-> call[p].id, text |-> to_csv(call[p].df)]]
    /\ Advance(p)
    /\ UNCHANGED <<stages, tables, loadMeta, call, session, log, failedAt, before,
                   budget, fileSeq, overlapped, returned, frames, pipelineVars>>

\* with self.__get_connection() as conn: a new session, no schema selected
GetConnection(p) ==
    /\ pc[p] \in {"connect_staging", "connect_copy"}
    /\ session' = [session EXCEPT ![p] = [conn |-> @.conn + 1, schema |-> NoSchema]]
    /\ Advance(p)
    /\ UNCHANGED <<stages, tables, loadMeta, call, tempfile, log, failedAt, before,
                   budget, fileSeq, overlapped, returned, frames, pipelineVars>>

\* curr.execute('USE %s.%s;' % (self.database, schema))
UseSchema(p) ==
    /\ pc[p] \in {"use_staging", "use_copy"}
    /\ session' = [session EXCEPT ![p].schema = call[p].schema]
    /\ Logged(p, "USE")
    /\ Advance(p)
    /\ UNCHANGED <<stages, tables, loadMeta, call, tempfile, failedAt, before,
                   budget, fileSeq, overlapped, returned, frames, pipelineVars>>

\* curr.execute('REMOVE @%s;' % schema_stage): the stage is named with its schema
Remove(p) ==
    /\ pc[p] = "remove"
    /\ stages' = [stages EXCEPT ![call[p].schema] = {}]
    /\ Logged(p, "REMOVE")
    /\ Advance(p)
    /\ UNCHANGED <<tables, loadMeta, call, tempfile, session, failedAt, before,
                   budget, fileSeq, overlapped, returned, frames, pipelineVars>>

\* curr.execute('PUT file://%s @%s;' % (temp.name, stage)): the stage is resolved
\* in the session's current schema
Put(p) ==
    /\ pc[p] = "put"
    /\ session[p].schema \in Schemas
    /\ stages' = [stages EXCEPT ![session[p].schema] = @ \cup {tempfile[p]}]
    /\ Logged(p, "PUT")
    /\ Advance(p)
    /\ UNCHANGED <<tables, loadMeta, call, tempfile, session, failedAt, before,
                   budget, fileSeq, overlapped, returned, frames, pipelineVars>>

\* curr.execute('TRUNCATE TABLE IF EXISTS %s;' % schema_table): the rows go, and
\* with them the table's record of loaded files
Truncate(p) ==
    /\ pc[p] = "truncate"
    /\ tables' = [tables EXCEPT ![call[p].schema] = <<>>]
    /\ loadMeta' = [loadMeta EXCEPT ![call[p].schema] = {}]
    /\ Logged(p, "TRUNCATE")
    /\ Advance(p)
    /\ UNCHANGED <<stages, call, tempfile, session, failedAt, before,
                   budget, fileSeq, overlapped, returned, frames, pipelineVars>>

\* curr.execute('COPY INTO %s FROM @%s FILE_FORMAT = (...)' % (schema_table, stage)):
\* every file of the stage the table has not loaded yet is loaded, in an order
\* the warehouse chooses; a file it does not accept makes the statement raise
\* (Fail) with nothing loaded
CopyInto(p) ==
    /\ pc[p] = "copy"
    /\ session[p].schema \in Schemas
    /\ LET new == {f \in stages[session[p].schema] : f.name \notin loadMeta[call[p].schema]}
       IN  /\ \A f \in new : Loadable(f)
           /\ \E o \in Orders(new) :
                 tables' = [tables EXCEPT ![call[p].schema] = @ \o RowsOfFiles(o)]
           /\ loadMeta' = [loadMeta EXCEPT ![call[p].schema] =
                              @ \cup {f.name : f \in new}]
    /\ Logged(p, "COPY")
    /\ Advance(p)
    /\ UNCHANGED <<stages, call, tempfile, session, failedAt, before,
                   budget, fileSeq, overlapped, returned, frames, pipelineVars>>

\* the with-blocks of __stage_to_table close the cursor and the connection,
\* then __stage_to_table and to_table return
Return(p) ==
    /\ pc[p] = "closing"
    /\ Advance(p)
    /\ session' = [session EXCEPT ![p].schema = NoSchema]
    /\ returned' = Append(returned, p)
    /\ UNCHANGED <<stages, tables, loadMeta, call, tempfile, log, failedAt, before,
                   budget, fileSeq, overlapped, frames, pipelineVars>>

\* Fail with the exception swallowed: the call goes on with its next step
Fail_Swallowed(p) ==
    /\ pc[p] \in Steps
    /\ failedAt' = [failedAt EXCEPT ![p] = pc[p]]
    /\ pc' = [pc EXCEPT ![p] = NextPc(pc[p], call[p].incremental)]
    /\ UNCHANGED <<stages, tables, loadMeta, call, tempfile, session, log, before,
                   budget, fileSeq, overlapped, returned, frames, pipelineVars>>

\* any step may raise, and the failed statement has no effect; the exception
\* starts to leave the with-blocks
Fail(p) ==
    /\ pc[p] \in Steps
    /\ failedAt' = [failedAt EXCEPT ![p] = pc[p]]
    /\ pc' = [pc EXCEPT ![p] = "raising"]
    /\ UNCHANGED <<stages, tables, loadMeta, call, tempfile, session, log, before,
                   budget, fileSeq, overlapped, returned, frames, pipelineVars>>

\* the with-exits have closed the cursor, the connection and the temp file;
\* to_table catches nothing, so the exception reaches its caller
Raise(p) ==
    /\ pc[p] = "raising"
    /\ pc' = [pc EXCEPT ![p] = "error"]
    /\ session' = [session EXCEPT ![p].schema = NoSchema]
    /\ UNCHANGED <<stages, tables, loadMeta, call, tempfile, log, failedAt, before,
                   budget, fileSeq, overlapped, returned, frames, pipelineVars>>

\* fetch_sql_df('SELECT * FROM <schema>.<table>'): the rows of the table
fetch_sql_df(s) == tables[s]

-----------------------------------------------------------------------------
(* The pipeline: aggregate_data and get_aggregated_data *)

\* rows of the two query results together
MaxRows == 4

\* US/Pacific, hours east of UTC: standard time and daylight time
PacificStandardOffset == -8

PacificDaylightOffset == -7

\* a missing value (NaN); a number is a fraction <<numerator, denominator>>
NaN == <<>>

Num(n) == <<n, 1>>

Abs(n) == IF n < 0 THEN -n ELSE n

RECURSIVE Gcd(_, _)
Gcd(a, b) == IF b = 0 THEN a ELSE Gcd(b, a % b)

\* the fraction n/d in lowest terms, d > 0
Frac(n, d) ==
    LET g == Gcd(Abs(n), d)
    IN  <<n \div g, d \div g>>

\* days from 1970-01-01 to the civil date y-m-d
DaysFromCivil(y, m, d) ==
    LET yy  == IF m <= 2 THEN y - 1 ELSE y
        era == yy \div 400
        yoe == yy - era * 400
        mp  == IF m > 2 THEN m - 3 ELSE m + 9
        doy == (153 * mp + 2) \div 5 + d - 1
        doe == yoe * 365 + yoe \div 4 - yoe \div 100 + doy
    IN  era * 146097 + doe - 719468

\* the civil date of a day number
CivilFromDays(z0) ==
    LET z   == z0 + 719468
        era == z \div 146097
        doe == z - era * 146097
        yoe == (doe - doe \div 1460 + doe \div 36524 - doe \div 146096) \div 365
        doy == doe - (365 * yoe + yoe \div 4 - yoe \div 100)
        mp  == (5 * doy + 2) \div 153
        d   == doy - (153 * mp + 2) \div 5 + 1
        m   == IF mp < 10 THEN mp + 3 ELSE mp - 9
        y   == yoe + era * 400 + (IF m <= 2 THEN 1 ELSE 0)
    IN  [y |-> y, m |-> m, d |-> d]

\* hours from 1970-01-01 00:00 UTC
UtcHour(y, m, d, h) == DaysFromCivil(y, m, d) * 24 + h

\* timestamps of the input rows, in local time Sun 2022-12-18 04:00 PST,
\* Sat 2022-12-31 19:00 PST, Sun 2023-01-01 23:00 PST and, in daylight time,
\* Mon 2023-03-13 00:00 PDT
Times ==
    { UtcHour(2022, 12, 18, 12), UtcHour(2023, 1, 1, 3),
      UtcHour(2023, 1, 2, 7),    UtcHour(2023, 3, 13, 7) }

Values1 == {Num(5), Num(7)}

Values2 == {Num(2), Num(4), Num(6)}

Freqs == {"W", "M", "Y"}

RowKey(r) == r.ts * 10 + (IF r.v = NaN THEN 0 ELSE r.v[1])

\* the query results of n rows over the given values, listed by ascending
\* timestamp and value
QueryResults(vals, n) ==
    {f \in [1..n -> [ts : Times, v : vals]] :
        \A i \in 1..(n - 1) : RowKey(f[i]) < RowKey(f[i + 1])}

\* pd.concat([df1, df2]): the rows of df1, then those of df2; a column of the
\* other source is missing
Concat(a, b) ==
    [i \in 1..Len(a) |-> [ts |-> a[i].ts, ci |-> a[i].v, moer |-> NaN]]
    \o [i \in 1..Len(b) |-> [ts |-> b[i].ts, ci |-> NaN, moer |-> b[i].v]]

\* .sort_values(by='datetime'): the rows by ascending timestamp; the sort is
\* not stable, so rows of equal timestamp come in any order
SortedBy(rows) ==
    {[i \in 1..Len(rows) |-> rows[o[i]]] : o \in
        {o \in [1..Len(rows) -> 1..Len(rows)] :
            /\ \A i, j \in 1..Len(rows) : i # j => o[i] # o[j]
            /\ \A i \in 1..(Len(rows) - 1) : rows[o[i]].ts <= rows[o[i + 1]].ts}}

\* forward fill: the last valid value at or before position i
RECURSIVE PrevValid(_, _)
PrevValid(col, i) ==
    IF i < 1 THEN NaN
    ELSE IF col[i] # NaN THEN col[i] ELSE PrevValid(col, i - 1)

\* fillna(method='bfill'): the next valid value at or after position i
RECURSIVE NextValid(_, _)
NextValid(col, i) ==
    IF i > Len(col) THEN NaN
    ELSE IF col[i] # NaN THEN col[i] ELSE NextValid(col, i + 1)

Column(rows, c) == [i \in 1..Len(rows) |-> rows[i][c]]

\* df3.fillna(method='bfill') done as a forward fill
fillna_ffill(rows) ==
    [i \in 1..Len(rows) |->
        [rows[i] EXCEPT !.ci = PrevValid(Column(rows, "ci"), i),
                        !.moer = PrevValid(Column(rows, "moer"), i)]]

\* df3.fillna(method='bfill'), column by column
fillna_bfill(rows) ==
    [i \in 1..Len(rows) |->
        [rows[i] EXCEPT !.ci = NextValid(Column(rows, "ci"), i),
                        !.moer = NextValid(Column(rows, "moer"), i)]]

\* index taken as UTC, then tz_convert("US/Pacific"): the local calendar day
\* the first Sunday at or after a day
SundayOnOrAfter(day) == day + ((10 - (day % 7)) % 7)

\* US/Pacific since 2007: daylight time from 02:00 standard time on the
\* second Sunday of March to 02:00 daylight time on the first Sunday of
\* November
UtcOffset(ts) ==
    LET y     == CivilFromDays(ts \div 24).y
        start == (SundayOnOrAfter(DaysFromCivil(y, 3, 1)) + 7) * 24
                     + 2 - PacificStandardOffset
        end   == SundayOnOrAfter(DaysFromCivil(y, 11, 1)) * 24
                     + 2 - PacificDaylightOffset
    IN  IF start <= ts /\ ts < end THEN PacificDaylightOffset
        ELSE PacificStandardOffset

LocalDay(ts) == (ts + UtcOffset(ts)) \div 24

\* df3.index = pd.to_datetime(df3.index, utc=True), then
\* df3.index.tz_convert("US/Pacific"): every row gets its local calendar day
tz_convert(rows) ==
    [i \in 1..Len(rows) |->
        [ts |-> rows[i].ts, day |-> LocalDay(rows[i].ts),
         ci |-> rows[i].ci, moer |-> rows[i].moer]]

\* the last day of a bucket at or after the day (freq.rollforward): 'W' the
\* Sunday, 'M' the month end, 'Y' 31 December
RollForward(day, freq) ==
    LET c == CivilFromDays(day)
    IN  CASE freq = "W" -> day + ((10 - (day % 7)) % 7)
          [] freq = "M" -> (IF c.m = 12 THEN DaysFromCivil(c.y + 1, 1, 1)
                            ELSE DaysFromCivil(c.y, c.m + 1, 1)) - 1
          [] freq = "Y" -> DaysFromCivil(c.y, 12, 31)

\* the last anchor before the day (Timestamp - freq)
AnchorBefore(day, freq) ==
    LET c == CivilFromDays(day)
    IN  CASE freq = "W" -> (day - 1) - ((day + 3) % 7)
          [] freq = "M" -> day - c.d
          [] freq = "Y" -> DaysFromCivil(c.y - 1, 12, 31)

\* the first anchor after the day (Timestamp + freq)
AnchorAfter(day, freq) == RollForward(day + 1, freq)

\* date_range(start, end, freq): the anchors from start to end, both anchors
RECURSIVE DateRange(_, _, _)
DateRange(start, end, freq) ==
    IF start >= end THEN <<start>>
    ELSE <<start>> \o DateRange(AnchorAfter(start, freq), end, freq)

\* the bin edges of pd.Grouper(freq): from the anchor before the first day to
\* the anchor after the last day; the last edge is dropped when the one before
\* it already covers the last row
Binner(rows, freq) ==
    LET first == AnchorBefore(rows[1].day, freq)
        last  == AnchorAfter(rows[Len(rows)].day, freq)
        all   == DateRange(first, last, freq)
    IN  IF all[Len(all) - 1] >= rows[Len(rows)].day
        THEN SubSeq(all, 1, Len(all) - 1)
        ELSE all

\* bins closed on the right: the rows up to and including each edge's day
BinEnd(rows, edge) == Cardinality({i \in 1..Len(rows) : rows[i].day <= edge})

RECURSIVE SumOf(_)
SumOf(xs) == IF xs = <<>> THEN 0 ELSE Head(xs)[1] + SumOf(Tail(xs))

\* .mean(): the mean of the valid values, NaN when there is none
Mean(xs) ==
    LET valid == SelectSeq(xs, LAMBDA x : x # NaN)
    IN  IF valid = <<>> THEN NaN ELSE Frac(SumOf(valid), Len(valid))

\* df['moer_tons_per_mwh'] - df['carbon_intensity_tons_per_mwh']
Minus(a, b) ==
    IF a = NaN \/ b = NaN THEN NaN
    ELSE Frac(a[1] * b[2] - b[1] * a[2], a[2] * b[2])

BucketRow(label, rows) ==
    LET ci   == Mean(Column(rows, "ci"))
        moer == Mean(Column(rows, "moer"))
    IN  [label |-> label, ci |-> ci, moer |-> moer, delta |-> Minus(moer, ci)]

\* get_aggregated_data with every bucket given the mean of the whole frame
get_aggregated_data_global(rows, freq) ==
    IF rows = <<>> THEN <<>>
    ELSE LET edges == Binner(rows, freq)
         IN  [k \in 1..(Len(edges) - 1) |-> BucketRow(edges[k + 1], rows)]

\* data.groupby(pd.Grouper(freq=target)).mean(), then the delta column: one
\* row per bin, labelled with the bin's right edge
get_aggregated_data(rows, freq) ==
    IF rows = <<>> THEN <<>>
    ELSE LET edges == Binner(rows, freq)
         IN  [k \in 1..(Len(edges) - 1) |->
                 BucketRow(edges[k + 1],
                           SubSeq(rows, BinEnd(rows, edges[k]) + 1,
                                  BinEnd(rows, edges[k + 1])))]

\* data = aggregate_data(df1, df2)
AggregateData ==
    /\ pcA = "loaded"
    /\ \E sorted \in SortedBy(Concat(df1, df2)) :
          /\ unfilled' = tz_convert(sorted)
          /\ data' = fillna_bfill(tz_convert(sorted))
    /\ pcA' = "aligned"
    /\ UNCHANGED <<df1, df2, target, time_data, loaderVars>>

\* time_data = get_aggregated_data(data, option_map[option])
GetAggregatedData ==
    /\ pcA \in {"aligned", "aggregated"}
    /\ \E f \in Freqs :
          /\ target' = f
          /\ time_data' = get_aggregated_data(data, f)
    /\ pcA' = "aggregated"
    /\ UNCHANGED <<df1, df2, unfilled, data, loaderVars>>

-----------------------------------------------------------------------------
(* Specifications *)

InitWarehouse ==
    /\ stages = [s \in Schemas |-> {}]
    /\ tables = [s \in Schemas |-> <<>>]
    /\ loadMeta = [s \in Schemas |-> {}]
    /\ pc = [p \in Procs |-> "idle"]
    /\ call = [p \in Procs |-> NoCall]
    /\ tempfile = [p \in Procs |-> NoFile]
    /\ session = [p \in Procs |-> NoSession]
    /\ log = [p \in Procs |-> <<>>]
    /\ failedAt = [p \in Procs |-> "none"]
    /\ before = [p \in Procs |-> [tables |-> tables, stages |-> stages]]
    /\ fileSeq = 0
    /\ overlapped = FALSE
    /\ returned = <<>>

\* the pipeline not run
InitNoPipeline ==
    /\ df1 = <<>>
    /\ df2 = <<>>
    /\ pcA = "off"
    /\ unfilled = <<>>
    /\ data = <<>>
    /\ target = "none"
    /\ time_data = <<>>

\* one caller, its calls one after the other
Init ==
    /\ InitWarehouse
    /\ budget = [p \in Procs |-> IF p = 1 THEN MaxCalls ELSE 0]
    /\ frames = DataFrames
    /\ InitNoPipeline

\* one caller, its calls one after the other, its data frames holding the
\* characters of the CSV format
InitRoundTrip ==
    /\ InitWarehouse
    /\ budget = [p \in Procs |-> IF p = 1 THEN MaxCalls ELSE 0]
    /\ frames = TextFrames
    /\ InitNoPipeline

\* two callers, one call each, no lock between them
InitConc ==
    /\ InitWarehouse
    /\ budget = [p \in Procs |-> 1]
    /\ frames = DataFrames
    /\ InitNoPipeline

\* the two query results loaded, no upload made
InitPipeline ==
    /\ InitWarehouse
    /\ budget = [p \in Procs |-> 0]
    /\ frames = DataFrames
    /\ \E n1 \in 0..MaxRows : \E n2 \in 0..(MaxRows - n1) :
          /\ df1 \in QueryResults(Values1, n1)
          /\ df2 \in QueryResults(Values2, n2)
    /\ pcA = "loaded"
    /\ unfilled = <<>>
    /\ data = <<>>
    /\ target = "none"
    /\ time_data = <<>>

Next ==
    \E p \in Procs :
        \/ ToTable(p)
        \/ ToCsv(p)
        \/ GetConnection(p)
        \/ UseSchema(p)
        \/ Remove(p)
        \/ Put(p)
        \/ Truncate(p)
        \/ CopyInto(p)
        \/ Return(p)
        \/ Fail(p)
        \/ Raise(p)

Spec == Init /\ [][Next]_vars

SpecConc == InitConc /\ [][Next]_vars

SpecRoundTrip == InitRoundTrip /\ [][Next]_vars

NextPipeline == AggregateData \/ GetAggregatedData

SpecPipeline == InitPipeline /\ [][NextPipeline]_vars

-----------------------------------------------------------------------------
(* Properties of the bulk loader *)

Statements(p) == [i \in 1..Len(log[p]) |-> log[p][i].stmt]

ExpectedOrder(incremental) ==
    IF incremental = FALSE
    THEN <<"USE", "REMOVE", "PUT", "USE", "TRUNCATE", "COPY">>
    ELSE <<"USE", "PUT", "USE", "COPY">>

IsPrefix(s, t) == Len(s) <= Len(t) /\ s = SubSeq(t, 1, Len(s))

\* the rows of a data frame with the empty string and NULL identified (the
\* empty string <-> null mapping of the specification's round trip): the empty
\* string stands as NULL, every other cell as itself
Coerced(df) ==
    [i \in 1..Len(df) |->
        [j \in 1..Len(df[i]) |-> IF df[i][j] = <<>> THEN NULL ELSE df[i][j]]]

StagingSteps == {"to_csv", "connect_staging", "use_staging", "remove", "put"}

\* C1: the statements of a to_table call are issued in one fixed order: what a
\* call has issued so far is always a prefix of USE, REMOVE, PUT, USE, TRUNCATE,
\* COPY (incremental: USE, PUT, USE, COPY), and a call that returns has issued
\* all of it. So COPY never precedes PUT, REMOVE never follows PUT and TRUNCATE
\* never follows COPY.
C1_StatementOrder ==
    \A p \in Procs :
        /\ IsPrefix(Statements(p), ExpectedOrder(call[p].incremental))
        /\ pc[p] \in {"closing", "done"}
              => Statements(p) = ExpectedOrder(call[p].incremental)

C1_Witness ==
    /\ pc[1] = "done"
    /\ call[1].incremental = FALSE
    /\ Statements(1) = <<"USE", "REMOVE", "PUT", "USE", "TRUNCATE", "COPY">>

\* C2: after a non-incremental upload returns, an unfiltered fetch of the
\* target table returns exactly the rows of the uploaded data frame, row for
\* row and in order, whatever the table and its stage held before: no earlier
\* row is present, no row of the frame is missing, duplicated or altered. An
\* empty-string cell counts as equal to NULL, the one mapping the round trip
\* of the specification allows.
C2_RoundTrip ==
    (pc[1] = "done" /\ call[1].incremental = FALSE)
        => fetch_sql_df(call[1].schema) = Coerced(call[1].df)

\* C3: a non-incremental upload that fails at COPY INTO, its TRUNCATE done,
\* ends in error with the target table empty, and the table stays empty for
\* as long as the caller makes no further call.
C3_NonAtomicUpload ==
    \A p \in Procs :
        (failedAt[p] = "copy" /\ call[p].incremental = FALSE)
            => /\ pc[p] \in {"raising", "error"}
               /\ Statements(p) = <<"USE", "REMOVE", "PUT", "USE", "TRUNCATE">>
               /\ tables[call[p].schema] = <<>>

C3_Witness ==
    /\ failedAt[1] = "copy"
    /\ call[1].incremental = FALSE
    /\ before[1].tables[call[1].schema] # <<>>
    /\ pc[1] = "error"
    /\ call[1].df # <<>>
    /\ tables[call[1].schema] = <<>>

\* the statements a call has issued when it reaches a step
RECURSIVE IssuedBefore(_, _, _)
IssuedBefore(step, incremental, from) ==
    IF from = step THEN 0
    ELSE (IF from \in {"use_staging", "remove", "put", "use_copy", "truncate", "copy"}
          THEN 1 ELSE 0)
         + IssuedBefore(step, incremental, NextPc(from, incremental))

\* C4: a step that fails ends the call: the exception is on its way to the
\* caller or has reached it, the call has issued exactly the statements that precede the failed step and
\* issues no more, and after a failure in the staging phase neither TRUNCATE
\* nor COPY INTO was issued and every table holds the rows it held before.
C4_FailureAborts ==
    \A p \in Procs :
        failedAt[p] # "none"
            => /\ pc[p] \in {"raising", "error"}
               /\ Statements(p) =
                     SubSeq(ExpectedOrder(call[p].incremental), 1,
                            IssuedBefore(failedAt[p], call[p].incremental, "to_csv"))
               /\ failedAt[p] \in StagingSteps
                     => /\ \A i \in 1..Len(log[p]) :
                              log[p][i].stmt \notin {"TRUNCATE", "COPY"}
                        /\ tables = before[p].tables

C4_Witness ==
    /\ failedAt[1] = "put"
    /\ pc[1] = "error"
    /\ call[1].incremental = FALSE
    /\ Statements(1) = <<"USE", "REMOVE">>
    /\ tables[call[1].schema] # <<>>

\* C5 as claimed: an incremental upload issues neither REMOVE nor TRUNCATE, and
\* when it returns the stage holds the files it held before plus the new one
\* and the table holds the rows it held before followed by the uploaded rows,
\* and no others (the empty string and NULL identified, as in C2).
C5_IncrementalAppends ==
    (pc[1] = "done" /\ call[1].incremental = TRUE)
        => /\ \A i \in 1..Len(log[1]) : log[1][i].stmt \notin {"REMOVE", "TRUNCATE"}
           /\ stages[call[1].schema] = before[1].stages[call[1].schema] \cup {tempfile[1]}
           /\ tables[call[1].schema] =
                 before[1].tables[call[1].schema] \o Coerced(call[1].df)

\* C6: two non-incremental uploads to the same table that do not overlap leave
\* the table holding the rows of the one that ran last; the witness is the
\* other half of the claim, an interleaving after which both have returned and
\* the table holds the rows of neither. Rows are compared with the empty string
\* and NULL identified, as in C2, and the frames are those of plain cells:
\* which call's rows the table holds is the subject here, how the CSV format
\* encodes a cell is that of C2.
C6_SerializedLastWins ==
    (/\ pc[1] = "done" /\ pc[2] = "done"
     /\ call[1].incremental = FALSE /\ call[2].incremental = FALSE
     /\ call[1].schema = call[2].schema
     /\ ~overlapped)
        => /\ Len(returned) = 2
           /\ fetch_sql_df(call[1].schema) = Coerced(call[returned[2]].df)

C6_Witness ==
    /\ pc[1] = "done" /\ pc[2] = "done"
    /\ call[1].incremental = FALSE /\ call[2].incremental = FALSE
    /\ call[1].schema = call[2].schema
    /\ call[1].df # call[2].df
    /\ overlapped
    /\ fetch_sql_df(call[1].schema) # Coerced(call[1].df)
    /\ fetch_sql_df(call[1].schema) # Coerced(call[2].df)
    /\ Len(fetch_sql_df(call[1].schema)) = Len(call[1].df) + Len(call[2].df)

\* C7: REMOVE, PUT, TRUNCATE and COPY INTO run on a connection whose current
\* schema is the upload's schema, and on each of the two connections of an
\* upload the first statement is USE.
C7_SchemaGating ==
    \A p \in Procs : \A i \in 1..Len(log[p]) :
        /\ log[p][i].stmt # "USE" => log[p][i].schema = call[p].schema
        /\ log[p][i].stmt = "USE" <=> (i = 1 \/ log[p][i - 1].conn # log[p][i].conn)

C7_Witness ==
    /\ pc[1] = "done"
    /\ call[1].incremental = FALSE
    /\ Len(log[1]) = 6
    /\ log[1][3].conn = 1 /\ log[1][3].schema = call[1].schema
    /\ log[1][6].conn = 2 /\ log[1][6].schema = call[1].schema

-----------------------------------------------------------------------------
(* Properties of the pipeline *)

StrictlyIncreasing(rows) == \A i \in 1..(Len(rows) - 1) : rows[i].ts < rows[i + 1].ts

\* C8 as claimed: for three rows at t1 < t2 < t3, a column holding
\* [5, NaN, NaN] comes out of aggregate_data as [5, 5, 5], and a column holding
\* [NaN, 7, NaN] comes out as [7, 7, NaN].
C8_FillAsClaimed ==
    (Len(data) = 3 /\ StrictlyIncreasing(unfilled))
        => /\ Column(unfilled, "ci") = <<Num(5), NaN, NaN>>
                 => Column(data, "ci") = <<Num(5), Num(5), Num(5)>>
           /\ Column(unfilled, "ci") = <<NaN, Num(7), NaN>>
                 => Column(data, "ci") = <<Num(7), Num(7), NaN>>

\* C8 as amended: for three rows at t1 < t2 < t3, a column holding
\* [5, NaN, NaN] comes out of aggregate_data unchanged, as [5, NaN, NaN] (no
\* later value exists for t2 and t3), and a column holding [NaN, 7, NaN] comes
\* out as [7, 7, NaN].
C8_BackwardFill ==
    (Len(data) = 3 /\ StrictlyIncreasing(unfilled))
        => /\ Column(unfilled, "ci") = <<Num(5), NaN, NaN>>
                 => Column(data, "ci") = <<Num(5), NaN, NaN>>
           /\ Column(unfilled, "ci") = <<NaN, Num(7), NaN>>
                 => Column(data, "ci") = <<Num(7), Num(7), NaN>>

C8_Witness ==
    /\ pcA = "aligned"
    /\ Len(data) = 3
    /\ StrictlyIncreasing(unfilled)
    /\ Column(unfilled, "ci") = <<Num(5), NaN, NaN>>
    /\ Column(data, "ci") = <<Num(5), NaN, NaN>>
    /\ Column(unfilled, "moer") = <<NaN, Num(2), Num(4)>>
    /\ Column(data, "moer") = <<Num(2), Num(2), Num(4)>>

\* the calendar bucket of a local day is the one labelled with this last day
InBucket(day, label, freq) ==
    CASE freq = "W" -> label - 6 <= day /\ day <= label
      [] freq = "M" -> /\ CivilFromDays(day).y = CivilFromDays(label).y
                       /\ CivilFromDays(day).m = CivilFromDays(label).m
      [] freq = "Y" -> CivilFromDays(day).y = CivilFromDays(label).y

EndsBucket(day, freq) ==
    CASE freq = "W" -> day % 7 = 3
      [] freq = "M" -> CivilFromDays(day + 1).d = 1
      [] freq = "Y" -> CivilFromDays(day).m = 12 /\ CivilFromDays(day).d = 31

\* the rows of the aligned frame that fall in the bucket of output row k
Members(k) ==
    {i \in 1..Len(data) : InBucket(data[i].day, time_data[k].label, target)}

RECURSIVE SumOver(_, _)
SumOver(S, c) ==
    IF S = {} THEN 0
    ELSE LET i == CHOOSE x \in S : TRUE
         IN  data[i][c][1] + SumOver(S \ {i}, c)

\* v is the arithmetic mean of column c's valid values over the rows S
IsMeanOf(v, c, S) ==
    LET valid == {i \in S : data[i][c] # NaN}
    IN  IF valid = {} THEN v = NaN
        ELSE v # NaN /\ v[1] * Cardinality(valid) = v[2] * SumOver(valid, c)

IsDifference(d, a, b) ==
    IF a = NaN \/ b = NaN THEN d = NaN
    ELSE d # NaN /\ d[1] * a[2] * b[2] = d[2] * (a[1] * b[2] - b[1] * a[2])

\* C9 as claimed: get_aggregated_data returns a row only for calendar buckets
\* that contain at least one row of the aligned frame.
C9_EmptyBucketsOmitted ==
    pcA = "aggregated" => \A k \in 1..Len(time_data) : Members(k) # {}

\* C10: in every row get_aggregated_data returns, each column is the mean of
\* that column's valid values over exactly the rows of the aligned frame whose
\* local day falls in the row's calendar bucket, and the delta is that bucket's
\* marginal mean minus that bucket's average-intensity mean.
C10_BucketMeanAndDelta ==
    pcA = "aggregated"
        => \A k \in 1..Len(time_data) :
              /\ EndsBucket(time_data[k].label, target)
              /\ IsMeanOf(time_data[k].ci, "ci", Members(k))
              /\ IsMeanOf(time_data[k].moer, "moer", Members(k))
              /\ IsDifference(time_data[k].delta, time_data[k].moer, time_data[k].ci)

C10_Witness ==
    /\ pcA = "aggregated"
    /\ \E k, k2 \in 1..Len(time_data) :
          /\ k # k2
          /\ Cardinality(Members(k)) = 3
          /\ {data[i].moer : i \in Members(k)} = {Num(2), Num(4), Num(6)}
          /\ time_data[k].moer = Num(4)
          /\ time_data[k].ci = Num(5)
          /\ time_data[k].delta = <<-1, 1>>
          /\ Members(k2) # {}
          /\ time_data[k2].moer = NaN

====
